---- MODULE Spec2Model ----
(***************************************************************************)
(* Model of src/main.rs: device resolution (init), one-time resource      *)
(* creation, window_size_dependent_setup and the presentation loop of     *)
(* main.  The host program is one sequential thread, modelled by pc; the  *)
(* accelerator runs submitted command buffers asynchronously (GpuExecute). *)
(* The driver and the window system are the environment: their answers    *)
(* (enumerated devices, surface capabilities, acquired image indices,     *)
(* driver errors, close requests) are drawn from small sets.              *)
(***************************************************************************)
EXTENDS Integers, Sequences, FiniteSets, TLC

\* ------------------------------------------------------------------ bounds
MaxDevices == 2
MaxFamilies == 2
MaxImages == 2
MaxIter == 3

\* ------------------------------------------------- environment value sets
\* A queue family as the program sees it: supports_graphics() and
\* queues_count().
FamilyKinds ==
    { [graphics |-> TRUE, queues_count |-> 1],
      [graphics |-> FALSE, queues_count |-> 2] }

RECURSIVE SeqsUpTo(_, _)
SeqsUpTo(S, n) ==
    IF n = 0 THEN { <<>> }
    ELSE LET shorter == SeqsUpTo(S, n - 1)
         IN  shorter \cup { Append(s, e) : s \in { t \in shorter : Len(t) = n - 1 }, e \in S }

\* A physical device is the sequence of its queue families; an enumeration
\* is a sequence of physical devices.
PhysicalDevices == SeqsUpTo(FamilyKinds, MaxFamilies)
DeviceEnumerations == SeqsUpTo(PhysicalDevices, MaxDevices)

\* Option::None for current_extent.
NoExtent == <<>>
CurrentExtents == { NoExtent, <<800, 600>> }

AcquireErrors == { "SurfaceLost", "OutOfDate" }

ArcNames == { "swapchain", "vertex_buffer", "render_pass", "pipeline" }

VARIABLES
    devices,                 \* PhysicalDevice::enumerate(&instance)
    debug_assertions,        \* cfg(debug_assertions) of the build
    pc,                      \* position of the host thread
    outcome,                 \* "running", "Ok", "Err" or "panic"
    error,                   \* what the Err or the panic carries
    stdout,                  \* lines printed by the diagnostic blocks
    listed,                  \* devices consumed by the diagnostic iterator
    chosen_physical_device,  \* 1-based position in devices, 0 = none yet
    chosen_family,           \* 1-based position in the device, 0 = none yet
    chosen_logical_device,   \* TRUE once Device::new returned
    chosen_queue,            \* family the queue belongs to, 0 = none yet
    surface,                 \* TRUE once build_vk_surface returned
    capabilities,            \* surface.capabilities(chosen_physical_device)
    images,                  \* swapchain images
    arcs,                    \* strong count of every Arc'd resource
    dynamic_state,           \* DynamicState (viewports)
    framebuffers,            \* Vec<Arc<FramebufferAbstract>>
    iteration,               \* iterations begun = acquire_next_image calls
    acquire_result,          \* "Ok" or the error of this iteration's acquire
    image_num,               \* index returned by this iteration's acquire
    command_buffer,          \* command buffer built in this iteration
    future,                  \* GpuFuture chain held by the host
    done,                    \* the `done` flag of this iteration
    built,                   \* command buffers built in this iteration
    log,                     \* calls issued in this iteration, in order
    submitted                \* command buffers flushed and not yet retired

vars ==
    << devices, debug_assertions, pc, outcome, error, stdout, listed,
       chosen_physical_device, chosen_family, chosen_logical_device,
       chosen_queue, surface, capabilities, images, arcs, dynamic_state,
       framebuffers, iteration, acquire_result, image_num, command_buffer,
       future, done, built, log, submitted >>

initVars ==
    << stdout, listed, chosen_physical_device, chosen_family,
       chosen_logical_device, chosen_queue, surface, capabilities >>

setupVars == << images, dynamic_state, framebuffers >>

loopVars ==
    << iteration, acquire_result, image_num, command_buffer, future, done,
       built, log, submitted >>

NoCapabilities == [current_extent |-> NoExtent, min_image_count |-> 0]
NoCommandBuffer == [ops |-> <<>>, family |-> 0]
NoFuture == [kind |-> "none"]
NoDynamicState == [viewports |-> <<>>]

Init ==
    /\ devices \in DeviceEnumerations
    /\ debug_assertions \in BOOLEAN
    /\ pc = "instance_new"
    /\ outcome = "running"
    /\ error = "none"
    /\ stdout = <<>>
    /\ listed = 0
    /\ chosen_physical_device = 0
    /\ chosen_family = 0
    /\ chosen_logical_device = FALSE
    /\ chosen_queue = 0
    /\ surface = FALSE
    /\ capabilities = NoCapabilities
    /\ images = <<>>
    /\ arcs = [n \in ArcNames |-> 0]
    /\ dynamic_state = NoDynamicState
    /\ framebuffers = <<>>
    /\ iteration = 0
    /\ acquire_result = "none"
    /\ image_num = 0
    /\ command_buffer = NoCommandBuffer
    /\ future = NoFuture
    /\ done = FALSE
    /\ built = 0
    /\ log = <<>>
    /\ submitted = <<>>

\* ------------------------------------------------------------ early exits
\* `?` in init or in main before any resource exists: main returns Err(e).
ReturnErr(e) ==
    /\ pc' = "done"
    /\ outcome' = "Err"
    /\ error' = e

\* `.expect(msg)` on None: the thread panics.
Panic(msg) ==
    /\ pc' = "done"
    /\ outcome' = "panic"
    /\ error' = msg

Continue(next) ==
    /\ pc' = next
    /\ UNCHANGED << outcome, error >>

\* ---------------------------------------------------------------- init()
\* Instance::new(None, &extensions, None)?
InstanceNew ==
    /\ pc = "instance_new"
    /\ \/ Continue(IF debug_assertions THEN "debug_list" ELSE "choose_device")
       \/ ReturnErr("InstanceCreationFailed")
    /\ UNCHANGED << devices, debug_assertions, initVars, setupVars, arcs, loopVars >>

\* One line of the listing: the device's position and the queue counts of
\* its families.
RECURSIVE QueueCounts(_)
QueueCounts(device) ==
    IF device = <<>> THEN <<>>
    ELSE <<Head(device).queues_count>> \o QueueCounts(Tail(device))

RECURSIVE Listing(_, _)
Listing(devs, from) ==
    IF from > Len(devs) THEN <<>>
    ELSE <<[device |-> from, queues |-> QueueCounts(devs[from])]>> \o Listing(devs, from + 1)

\* #[cfg(debug_assertions)] block listing all devices: it runs its own
\* enumeration to the end and prints.
DebugList ==
    /\ pc = "debug_list"
    /\ stdout' = Listing(devices, 1)
    /\ listed' = Len(devices)
    /\ Continue("choose_device")
    /\ UNCHANGED << devices, debug_assertions, chosen_physical_device, chosen_family,
                    chosen_logical_device, chosen_queue, surface, capabilities,
                    setupVars, arcs, loopVars >>

\* PhysicalDevice::enumerate(&instance): a fresh iterator from the start.
\* (faulty variant: the selection reuses the iterator the listing consumed)
EnumerateShared(devs) == [items |-> devs, pos |-> listed]
Enumerate(devs) == [items |-> devs, pos |-> 0]

\* Iterator::nth(n): the 1-based position of the element, 0 for None.
Nth(iter, n) ==
    IF iter.pos + n + 1 <= Len(iter.items) THEN iter.pos + n + 1 ELSE 0

\* PhysicalDevice::enumerate(&instance).nth(0).expect(...)
ChooseDevice ==
    /\ pc = "choose_device"
    /\ LET first == Nth(Enumerate(devices), 0)
       IN  IF first = 0
           THEN /\ Panic("No physical devices supporting Vulkan API found")
                /\ UNCHANGED chosen_physical_device
           ELSE /\ chosen_physical_device' = first
                /\ Continue(IF debug_assertions THEN "debug_chosen" ELSE "choose_family")
    /\ UNCHANGED << devices, debug_assertions, stdout, listed, chosen_family,
                    chosen_logical_device, chosen_queue, surface, capabilities,
                    setupVars, arcs, loopVars >>

\* #[cfg(debug_assertions)] block printing the chosen device.
DebugChosen ==
    /\ pc = "debug_chosen"
    /\ stdout' = Append(stdout, [device |-> chosen_physical_device, queues |-> <<>>])
    /\ Continue("choose_family")
    /\ UNCHANGED << devices, debug_assertions, listed, chosen_physical_device,
                    chosen_family, chosen_logical_device, chosen_queue, surface,
                    capabilities, setupVars, arcs, loopVars >>

\* queue_families().find(|&q| q.supports_graphics()): 1-based position of
\* the first graphics family, 0 for None.
RECURSIVE FindGraphics(_, _)
FindGraphics(device, from) ==
    IF from > Len(device) THEN 0
    ELSE IF device[from].graphics THEN from
    ELSE FindGraphics(device, from + 1)

\* chosen_physical_device.queue_families().find(...).expect(...)
ChooseFamily ==
    /\ pc = "choose_family"
    /\ LET family == FindGraphics(devices[chosen_physical_device], 1)
       IN  IF family = 0
           THEN /\ Panic("No family supporting GRAPHICS_BIT found in chosen device")
                /\ UNCHANGED chosen_family
           ELSE /\ chosen_family' = family
                /\ Continue("device_new")
    /\ UNCHANGED << devices, debug_assertions, stdout, listed, chosen_physical_device,
                    chosen_logical_device, chosen_queue, surface, capabilities,
                    setupVars, arcs, loopVars >>

\* Device::new(..., [(chosen_family, 0.5)])? and queues.next().expect(...):
\* one queue was requested from chosen_family, so the iterator yields it.
DeviceNew ==
    /\ pc = "device_new"
    /\ \/ /\ chosen_logical_device' = TRUE
          /\ chosen_queue' = chosen_family
          /\ Continue("surface")
       \/ /\ ReturnErr("DeviceCreationFailed")
          /\ UNCHANGED << chosen_logical_device, chosen_queue >>
    /\ UNCHANGED << devices, debug_assertions, stdout, listed, chosen_physical_device,
                    chosen_family, surface, capabilities, setupVars, arcs, loopVars >>

\* EventsLoop::new(), build_vk_surface(...)?, surface.capabilities(...)?
\* and the Ok((...)) of init.
BuildSurface ==
    /\ pc = "surface"
    /\ \/ /\ surface' = TRUE
          /\ \E extent \in CurrentExtents, count \in 1..MaxImages :
                capabilities' = [current_extent |-> extent, min_image_count |-> count]
          /\ Continue("swapchain_new")
       \/ /\ ReturnErr("SurfaceCreationFailed")
          /\ UNCHANGED << surface, capabilities >>
    /\ UNCHANGED << devices, debug_assertions, stdout, listed, chosen_physical_device,
                    chosen_family, chosen_logical_device, chosen_queue, setupVars,
                    arcs, loopVars >>

\* ------------------------------------------------------ reference counts
\* Arc::clone and the drop of one Arc.
\* (faulty variant: the Arc is moved, not cloned)
ArcCloneMoved(n) == n
ArcClone(n) == n + 1

ArcDrop(n) == IF n > 0 THEN n - 1 ELSE 0

\* The future chain contains a stage of the given kind.
RECURSIVE HasStage(_, _)
HasStage(fut, kind) ==
    IF fut.kind = "none" THEN FALSE
    ELSE IF fut.kind = kind THEN TRUE
    ELSE IF fut.kind = "acquire" THEN FALSE
    ELSE HasStage(fut.prev, kind)

\* The chain has been dropped already: then_signal_fence_and_flush
\* returned Err and consumed it.
ChainDropped(fut) == fut.kind = "fence" /\ ~fut.flushed

\* Clones of a resource owned by the values of the running iteration:
\* the acquire future and the present stage each own a swapchain clone,
\* the command buffer owns the pipeline and vertex buffer clones.
Holds(name, fut, cb) ==
    IF ChainDropped(fut) THEN 0
    ELSE CASE name = "swapchain" ->
                (IF HasStage(fut, "acquire") THEN 1 ELSE 0)
                + (IF HasStage(fut, "present") THEN 1 ELSE 0)
           [] name \in { "pipeline", "vertex_buffer" } ->
                IF cb = NoCommandBuffer THEN 0 ELSE 1
           [] OTHER -> 0

\* The command buffer owns a clone of the framebuffer it targets.
HoldsFramebuffer(i, fut, cb, num) ==
    IF ChainDropped(fut) \/ cb = NoCommandBuffer THEN 0
    ELSE IF i = num + 1 THEN 1 ELSE 0

\* Dropping the values of the running iteration.
ReleaseArcs(a, fut, cb) ==
    [n \in ArcNames |-> IF a[n] >= Holds(n, fut, cb) THEN a[n] - Holds(n, fut, cb) ELSE 0]

ReleaseFramebuffers(fbs, fut, cb, num) ==
    [i \in DOMAIN fbs |->
        [fbs[i] EXCEPT !.strong =
            IF @ >= HoldsFramebuffer(i, fut, cb, num)
            THEN @ - HoldsFramebuffer(i, fut, cb, num) ELSE 0]]

\* Dropping main's locals: one Arc each; a pipeline or framebuffer that
\* dies releases the render pass clone it owns.
DropFramebuffers(fbs) ==
    [i \in DOMAIN fbs |-> [fbs[i] EXCEPT !.strong = ArcDrop(@)]]

DropLocals(a, fbs) ==
    LET died == Cardinality({ i \in DOMAIN fbs : fbs[i].strong = 1 })
                + (IF a["pipeline"] = 1 THEN 1 ELSE 0)
        rp == ArcDrop(a["render_pass"])
    IN  [n \in ArcNames |->
            IF n = "render_pass"
            THEN (IF rp >= died THEN rp - died ELSE 0)
            ELSE ArcDrop(a[n])]

\* main is left (Ok(()), `?` or a panic unwinding): the running
\* iteration's values are dropped, then the locals.
LeaveMain(result, e) ==
    /\ pc' = "done"
    /\ outcome' = result
    /\ error' = e
    /\ arcs' = DropLocals(ReleaseArcs(arcs, future, command_buffer),
                          ReleaseFramebuffers(framebuffers, future, command_buffer, image_num))
    /\ framebuffers' =
          DropFramebuffers(ReleaseFramebuffers(framebuffers, future, command_buffer, image_num))

\* ------------------------------------------------------- main, set-up part
\* capabilities.current_extent.unwrap_or([1280, 1024])
UnwrapOrDefaultExtent(extent) ==
    IF extent = NoExtent THEN <<1280, 1024>> ELSE extent

\* Swapchain::new(..., capabilities.min_image_count, ..., dimensions, ...)?
\* The driver creates at least min_image_count images of `dimensions`.
SwapchainNew ==
    /\ pc = "swapchain_new"
    /\ \/ /\ \E count \in capabilities.min_image_count..MaxImages :
                images' = [i \in 1..count |->
                              [id |-> i - 1,
                               dimensions |-> UnwrapOrDefaultExtent(capabilities.current_extent)]]
          /\ arcs' = [arcs EXCEPT !["swapchain"] = 1]
          /\ Continue("resources")
          /\ UNCHANGED framebuffers
       \/ /\ LeaveMain("Err", "SwapchainCreationError")
          /\ UNCHANGED images
    /\ UNCHANGED << devices, debug_assertions, initVars, dynamic_state, loopVars >>

InitialViewport ==
    [origin |-> <<0, 0>>, dimensions |-> <<1024, 1024>>, depth_range |-> <<0, 1>>]

\* vertex buffer, shaders, render pass, pipeline (each with `?`) and the
\* initial dynamic state.  The pipeline's subpass owns a render pass clone.
CreateResources ==
    /\ pc = "resources"
    /\ \/ /\ arcs' = [arcs EXCEPT !["vertex_buffer"] = 1,
                                  !["render_pass"] = ArcClone(1),
                                  !["pipeline"] = 1]
          /\ dynamic_state' = [viewports |-> <<InitialViewport>>]
          /\ Continue("setup")
          /\ UNCHANGED framebuffers
       \/ /\ LeaveMain("Err", "ResourceCreationError")
          /\ UNCHANGED dynamic_state
    /\ UNCHANGED << devices, debug_assertions, initVars, images, loopVars >>

\* `as f32`: round to nearest, ties to even, on a 24-bit significand.
RECURSIVE F32Ulp(_)
F32Ulp(n) == IF n < 16777216 THEN 1 ELSE 2 * F32Ulp(n \div 2)

AsF32(n) ==
    LET ulp == F32Ulp(n)
        q == n \div ulp
        r == n % ulp
    IN  IF 2 * r < ulp THEN q * ulp
        ELSE IF 2 * r > ulp THEN (q + 1) * ulp
        ELSE IF q % 2 = 0 THEN q * ulp ELSE (q + 1) * ulp

\* Rust's 0-based vec[i].
Index0(vec, i) == vec[i + 1]

\* The viewport window_size_dependent_setup writes.
SetupViewport(imgs) ==
    LET dimensions == Index0(imgs, 0).dimensions
    IN  [origin |-> <<0, 0>>,
         dimensions |-> <<AsF32(dimensions[1]), AsF32(dimensions[2])>>,
         depth_range |-> <<0, 1>>]

\* images.iter().map(|image| Framebuffer::start(render_pass.clone())
\*     .add(image.clone()).unwrap().build().unwrap()).collect()
\* (faulty variant: the framebuffers are collected in reverse order)
SetupFramebuffersReversed(imgs) ==
    [i \in 1..Len(imgs) |->
        [attachment |-> imgs[Len(imgs) + 1 - i].id, render_pass |-> "render_pass", strong |-> 1]]
SetupFramebuffers(imgs) ==
    [i \in 1..Len(imgs) |->
        [attachment |-> imgs[i].id, render_pass |-> "render_pass", strong |-> 1]]

\* window_size_dependent_setup(&images, render_pass.clone(), &mut dynamic_state)
WindowSizeDependentSetup ==
    /\ pc = "setup"
    /\ IF Len(images) = 0
       THEN /\ LeaveMain("panic", "index out of bounds")
            /\ UNCHANGED dynamic_state
       ELSE \/ /\ dynamic_state' = [dynamic_state EXCEPT !.viewports = <<SetupViewport(images)>>]
               /\ framebuffers' = SetupFramebuffers(images)
               /\ arcs' = [arcs EXCEPT !["render_pass"] = @ + Len(images)]
               /\ Continue("acquire")
            \/ /\ dynamic_state' = [dynamic_state EXCEPT !.viewports = <<SetupViewport(images)>>]
               /\ LeaveMain("panic", "FramebufferCreationError")
    /\ UNCHANGED << devices, debug_assertions, initVars, images, loopVars >>

\* ------------------------------------------------- the presentation loop
\* swapchain::acquire_next_image(swapchain.clone(), None)?
\* The driver returns the index of one of the swapchain's images.
AcquireNextImage ==
    /\ pc = "acquire"
    /\ iteration < MaxIter
    /\ iteration' = iteration + 1
    /\ log' = <<"acquire_next_image">>
    /\ \/ /\ \E i \in 0..(Len(images) - 1) :
                /\ image_num' = i
                /\ future' = [kind |-> "acquire", image |-> i, iteration |-> iteration + 1]
          /\ acquire_result' = "Ok"
          /\ arcs' = [arcs EXCEPT !["swapchain"] = ArcClone(@)]
          /\ Continue("record")
          /\ UNCHANGED framebuffers
       \/ /\ \E e \in AcquireErrors :
                /\ acquire_result' = e
                /\ LeaveMain("Err", e)
          /\ UNCHANGED << image_num, future >>
    /\ UNCHANGED << devices, debug_assertions, initVars, images, dynamic_state,
                    command_buffer, done, built, submitted >>

\* The identity of a framebuffer: the image it binds and its render pass.
FramebufferId(fb) == [attachment |-> fb.attachment, render_pass |-> fb.render_pass]

ClearColour == <<0, 0, 1, 1>>

\* The calls made on the AutoCommandBufferBuilder, in order.
\* (faulty variant: draw is called before begin_render_pass)
RecordedOpsDrawFirst(fbs, num, ds) ==
    << [op |-> "Draw", pipeline |-> "pipeline", dynamic_state |-> ds,
        vertex_buffer |-> "vertex_buffer"],
       [op |-> "BeginRenderPass", framebuffer |-> FramebufferId(Index0(fbs, num)),
        clear |-> ClearColour],
       [op |-> "EndRenderPass"] >>
RecordedOps(fbs, num, ds) ==
    << [op |-> "BeginRenderPass", framebuffer |-> FramebufferId(Index0(fbs, num)),
        clear |-> ClearColour],
       [op |-> "Draw", pipeline |-> "pipeline", dynamic_state |-> ds,
        vertex_buffer |-> "vertex_buffer"],
       [op |-> "EndRenderPass"] >>

\* The recorder's structural rule: Draw and EndRenderPass only inside a
\* render pass, BeginRenderPass only outside, build only outside.
RECURSIVE RecorderCheck(_, _)
RecorderCheck(ops, inside) ==
    IF ops = <<>> THEN (IF inside THEN "InvalidRecordingState" ELSE "Ok")
    ELSE CASE Head(ops).op = "BeginRenderPass" ->
                IF inside THEN "InvalidRecordingState"
                ELSE RecorderCheck(Tail(ops), TRUE)
           [] Head(ops).op = "EndRenderPass" ->
                IF inside THEN RecorderCheck(Tail(ops), FALSE)
                ELSE "InvalidRecordingState"
           [] Head(ops).op = "Draw" ->
                IF inside THEN RecorderCheck(Tail(ops), inside)
                ELSE "InvalidRecordingState"
           [] OTHER -> RecorderCheck(Tail(ops), inside)

\* AutoCommandBufferBuilder::primary_one_time_submit(device.clone(),
\* queue.family())?.begin_render_pass(framebuffers[image_num].clone(), ..)?
\* .draw(pipeline.clone(), &dynamic_state, vertex_buffer.clone(), (), ())?
\* .end_render_pass()?.build()?
RecordCommandBuffer ==
    /\ pc = "record"
    /\ IF image_num >= Len(framebuffers)
       THEN /\ LeaveMain("panic", "index out of bounds")
            /\ UNCHANGED << command_buffer, built, log >>
       ELSE LET ops == RecordedOps(framebuffers, image_num, dynamic_state)
                check == RecorderCheck(ops, FALSE)
            IN  IF check # "Ok"
                THEN /\ LeaveMain("Err", check)
                     /\ UNCHANGED << command_buffer, built, log >>
                ELSE \/ /\ command_buffer' = [ops |-> ops, family |-> chosen_queue]
                        /\ built' = built + 1
                        /\ log' = Append(log, "build")
                        /\ arcs' = [arcs EXCEPT !["pipeline"] = ArcClone(@),
                                                !["vertex_buffer"] = ArcClone(@)]
                        /\ framebuffers' =
                              [framebuffers EXCEPT ![image_num + 1].strong = ArcClone(@)]
                        /\ Continue("then_execute")
                     \/ /\ LeaveMain("Err", "OomError")
                        /\ UNCHANGED << command_buffer, built, log >>
    /\ UNCHANGED << devices, debug_assertions, initVars, images, dynamic_state,
                    iteration, acquire_result, image_num, future, done, submitted >>

\* acquire_future.then_execute(queue.clone(), command_buffer)?
ThenExecute ==
    /\ pc = "then_execute"
    /\ \/ /\ future' = [kind |-> "execute", prev |-> future,
                        command_buffer |-> command_buffer]
          /\ log' = Append(log, "then_execute")
          /\ Continue("then_present")
          /\ UNCHANGED << arcs, framebuffers >>
       \/ /\ LeaveMain("Err", "CommandBufferExecError")
          /\ UNCHANGED << future, log >>
    /\ UNCHANGED << devices, debug_assertions, initVars, images, dynamic_state,
                    iteration, acquire_result, image_num, command_buffer, done, built, submitted >>

\* The image index handed to then_swapchain_present.
\* (faulty variant: always presents image 0)
PresentIndexZero(num) == 0
PresentIndex(num) == num

\* .then_swapchain_present(queue.clone(), swapchain.clone(), image_num)
ThenSwapchainPresent ==
    /\ pc = "then_present"
    /\ future' = [kind |-> "present", prev |-> future, image |-> PresentIndex(image_num)]
    /\ arcs' = [arcs EXCEPT !["swapchain"] = ArcClone(@)]
    /\ log' = Append(log, "then_swapchain_present")
    /\ Continue("flush")
    /\ UNCHANGED << devices, debug_assertions, initVars, setupVars, iteration,
                    acquire_result, image_num, command_buffer, done, built, submitted >>

\* .then_signal_fence_and_flush(): the Result is kept in `future` and never
\* inspected.  Ok: the chain is handed to the queue.  Err: nothing was
\* submitted and the chain is dropped.
ThenSignalFenceAndFlush ==
    /\ pc = "flush"
    /\ log' = Append(log, "then_signal_fence_and_flush")
    /\ \/ /\ future' = [kind |-> "fence", prev |-> future, flushed |-> TRUE]
          /\ submitted' = Append(submitted,
                                 [command_buffer |-> command_buffer,
                                  image |-> future.image,
                                  state |-> "pending"])
          /\ UNCHANGED << arcs, framebuffers >>
       \/ /\ future' = [kind |-> "fence", prev |-> future, flushed |-> FALSE]
          /\ arcs' = ReleaseArcs(arcs, future, command_buffer)
          /\ framebuffers' = ReleaseFramebuffers(framebuffers, future, command_buffer, image_num)
          /\ UNCHANGED submitted
    /\ Continue("poll_events")
    /\ UNCHANGED << devices, debug_assertions, initVars, images, dynamic_state,
                    iteration, acquire_result, image_num, command_buffer, done, built >>

\* The accelerator finishes a submitted command buffer and its present.
GpuExecute ==
    /\ \E i \in DOMAIN submitted :
          /\ submitted[i].state = "pending"
          /\ submitted' = [submitted EXCEPT ![i].state = "signaled"]
    /\ UNCHANGED << devices, debug_assertions, pc, outcome, error, initVars, setupVars,
                    arcs, iteration, acquire_result, image_num, command_buffer, future,
                    done, built, log >>

\* let mut done = false; events_loop.poll_events(|event| ...): done becomes
\* true iff a CloseRequested window event is among the polled events.
PollEvents ==
    /\ pc = "poll_events"
    /\ \E close_requested \in BOOLEAN : done' = close_requested
    /\ log' = Append(log, "poll_events")
    /\ Continue("loop_end")
    /\ UNCHANGED << devices, debug_assertions, initVars, setupVars, arcs, iteration,
                    acquire_result, image_num, command_buffer, future, built, submitted >>

\* if done { break; }
\* (faulty variants: the flag is ignored)
BreakNever(d) == FALSE
BreakAlways(d) == TRUE
Break(d) == d

\* End of the loop body: `future` goes out of scope (a flushed fence future
\* blocks in drop until the fence is signaled, then retires the work), then
\* either Ok(()) after the break or the next iteration.
LoopEnd ==
    /\ pc = "loop_end"
    /\ future.flushed => \A i \in DOMAIN submitted : submitted[i].state = "signaled"
    /\ submitted' = <<>>
    /\ IF Break(done)
       THEN /\ LeaveMain("Ok", "none")
            /\ UNCHANGED << acquire_result, command_buffer, future, done, built, log >>
       ELSE /\ arcs' = ReleaseArcs(arcs, future, command_buffer)
            /\ framebuffers' = ReleaseFramebuffers(framebuffers, future, command_buffer, image_num)
            /\ acquire_result' = "none"
            /\ command_buffer' = NoCommandBuffer
            /\ future' = NoFuture
            /\ done' = FALSE
            /\ built' = 0
            /\ log' = <<>>
            /\ Continue("acquire")
    /\ UNCHANGED << devices, debug_assertions, initVars, images, dynamic_state,
                    iteration, image_num >>

Next ==
    \/ InstanceNew
    \/ DebugList
    \/ ChooseDevice
    \/ DebugChosen
    \/ ChooseFamily
    \/ DeviceNew
    \/ BuildSurface
    \/ SwapchainNew
    \/ CreateResources
    \/ WindowSizeDependentSetup
    \/ AcquireNextImage
    \/ RecordCommandBuffer
    \/ ThenExecute
    \/ ThenSwapchainPresent
    \/ ThenSignalFenceAndFlush
    \/ GpuExecute
    \/ PollEvents
    \/ LoopEnd

Spec == Init /\ [][Next]_vars

\* ------------------------------------------------------------- properties
InitPcs ==
    { "instance_new", "debug_list", "choose_device", "debug_chosen",
      "choose_family", "device_new", "surface" }

LoopPcs ==
    { "acquire", "record", "then_execute", "then_present", "flush",
      "poll_events", "loop_end" }

FullProtocol ==
    << "acquire_next_image", "build", "then_execute", "then_swapchain_present",
       "then_signal_fence_and_flush", "poll_events" >>

IsPrefix(s, t) == Len(s) <= Len(t) /\ \A i \in 1..Len(s) : s[i] = t[i]

\* C1: once the event poll of an iteration has observed a close request,
\* that iteration's submit and present have been issued, the host is at the
\* end of the loop body or has returned Ok, and no later step calls
\* acquire_next_image again or re-enters the loop.
C1_CloseStopsLoop ==
    /\ [](done => /\ log = FullProtocol
                  /\ pc \in { "loop_end", "done" }
                  /\ (pc = "done" => outcome = "Ok"))
    /\ [][done => /\ iteration' = iteration
                  /\ done'
                  /\ pc' \in { "loop_end", "done" }]_vars

C1_Witness ==
    /\ pc = "done"
    /\ done
    /\ iteration = 2
    /\ outcome = "Ok"

\* C2 as stated: the loop is left only in an iteration whose event poll
\* observed a close request.
C2_OnlyExitIsClose ==
    (pc = "done" /\ iteration > 0) => done

LoopErrors == AcquireErrors \cup { "OomError", "CommandBufferExecError" }

\* C2 amended: the loop is left with Ok(()) exactly when the event poll of
\* the running iteration observed a close request, which ends the loop the
\* first time it happens; every other exit is the Err return of a failed
\* acquire, recording or then_execute step, taken before that iteration's
\* poll.
C2_ExitsOfLoop ==
    /\ (pc = "done" /\ iteration > 0) =>
          \/ outcome = "Ok" /\ done /\ log = FullProtocol
          \/ /\ outcome = "Err" /\ ~done
             /\ error \in LoopErrors
             /\ log # FullProtocol
    /\ (done /\ pc \in LoopPcs) => pc = "loop_end"

C2_Witness ==
    /\ pc = "done"
    /\ iteration = MaxIter
    /\ outcome = "Ok"
    /\ done
    /\ log = FullProtocol

HasGraphics(device) == \E f \in 1..Len(device) : device[f].graphics

InitDriverErrors ==
    { "InstanceCreationFailed", "DeviceCreationFailed", "SurfaceCreationFailed" }

\* C3 as stated: whenever some enumerated device, at any position, has a
\* graphics queue family and the driver calls succeed, init returns a
\* device and a queue of a graphics family.
C3_ResolvesWheneverPossible ==
    ( /\ \E d \in 1..Len(devices) : HasGraphics(devices[d])
      /\ pc \notin InitPcs
      /\ error \notin InitDriverErrors ) =>
        /\ chosen_logical_device
        /\ chosen_queue # 0
        /\ devices[chosen_physical_device][chosen_queue].graphics

\* C4 as stated: an empty enumeration makes init return Err(NoDeviceFound),
\* an enumeration without a qualifying device Err(NoSuitableQueueFamily),
\* and in both cases no logical device, queue or surface exists.
C4_ResolutionFailuresAreErrors ==
    ( /\ pc \notin InitPcs
      /\ error # "InstanceCreationFailed"
      /\ \A d \in 1..Len(devices) : ~HasGraphics(devices[d]) ) =>
        /\ outcome = "Err"
        /\ error = (IF devices = <<>> THEN "NoDeviceFound" ELSE "NoSuitableQueueFamily")
        /\ ~chosen_logical_device
        /\ chosen_queue = 0
        /\ ~surface

\* C5 as stated: an acquire that fails with SurfaceLost ends the loop with
\* the normal Ok outcome instead of handing the fault to main's caller.
C5_SurfaceLostTerminatesCleanly ==
    acquire_result = "SurfaceLost" => (pc = "done" /\ outcome = "Ok")

\* C6: every iteration issues its calls in the order acquire, build,
\* then_execute, then_swapchain_present, then_signal_fence_and_flush,
\* poll_events; it builds at most one command buffer, exactly one before
\* the poll; the command buffer targets the framebuffer of the acquired
\* image, the execute stage is chained on this iteration's acquire future,
\* the present stage is chained on the execute stage and presents the
\* acquired index, and whatever reaches the queue is that command buffer
\* and that image.
ChainOfIteration ==
    /\ future.kind = "fence"
    /\ future.prev.kind = "present"
    /\ future.prev.image = image_num
    /\ future.prev.prev.kind = "execute"
    /\ future.prev.prev.command_buffer = command_buffer
    /\ future.prev.prev.prev =
          [kind |-> "acquire", image |-> image_num, iteration |-> iteration]

C6_ProtocolOrder ==
    /\ IsPrefix(log, FullProtocol)
    /\ built <= 1
    /\ built = 1 =>
          /\ command_buffer.ops[1].op = "BeginRenderPass"
          /\ command_buffer.ops[1].framebuffer.attachment = images[image_num + 1].id
    /\ (log # <<>> /\ log[Len(log)] = "poll_events") =>
          /\ built = 1
          /\ ChainOfIteration
    /\ \A i \in DOMAIN submitted :
          /\ submitted[i].image = image_num
          /\ submitted[i].command_buffer = command_buffer
          /\ "then_execute" \in { log[j] : j \in DOMAIN log }

C6_Witness ==
    /\ pc = "loop_end"
    /\ iteration = 2
    /\ image_num = 1
    /\ future.flushed
    /\ submitted # <<>>

\* What selection yields when the diagnostic blocks are compiled out: the
\* first enumerated device and its first graphics family (0 = none).
SelectionWithoutDiagnostics(devs) ==
    IF devs = <<>> THEN [device |-> 0, family |-> 0]
    ELSE [device |-> 1,
          family |-> IF HasGraphics(devs[1])
                     THEN CHOOSE f \in 1..Len(devs[1]) :
                            /\ devs[1][f].graphics
                            /\ \A g \in 1..(f - 1) : ~devs[1][g].graphics
                     ELSE 0]

\* C7: the device, family and queue init chooses are a function of the
\* enumeration alone, the same with the diagnostic blocks compiled in or
\* out, and the diagnostic blocks change nothing but the printed output
\* and their own iterator.
C7_DiagnosticsDoNotAffectSelection ==
    /\ []( (pc \notin { "instance_new", "debug_list", "choose_device" }
            /\ error # "InstanceCreationFailed") =>
                chosen_physical_device = SelectionWithoutDiagnostics(devices).device )
    /\ []( (pc \notin { "instance_new", "debug_list", "choose_device",
                        "debug_chosen", "choose_family" }
            /\ error # "InstanceCreationFailed") =>
                /\ chosen_family = SelectionWithoutDiagnostics(devices).family
                /\ chosen_queue \in { 0, chosen_family } )
    /\ [][(pc \in { "debug_list", "debug_chosen" }) =>
            (<< devices, chosen_physical_device, chosen_family,
                chosen_logical_device, chosen_queue, surface, capabilities >>'
               = << devices, chosen_physical_device, chosen_family,
                    chosen_logical_device, chosen_queue, surface, capabilities >>)]_vars

C7_Witness ==
    /\ debug_assertions
    /\ Len(stdout) = 3
    /\ Len(devices) = 2
    /\ chosen_physical_device = 1
    /\ chosen_family = 2
    /\ chosen_queue = 2

\* C8: every command buffer the loop builds is exactly BeginRenderPass on
\* the acquired image's framebuffer with clear colour (0,0,1,1), one Draw
\* with the pipeline, the dynamic state and the vertex buffer, then
\* EndRenderPass; recording never fails with InvalidRecordingState.
ExpectedStructure(cb) ==
    /\ Len(cb.ops) = 3
    /\ cb.ops[1].op = "BeginRenderPass"
    /\ cb.ops[1].framebuffer = FramebufferId(framebuffers[image_num + 1])
    /\ cb.ops[1].clear = <<0, 0, 1, 1>>
    /\ cb.ops[2].op = "Draw"
    /\ cb.ops[2].pipeline = "pipeline"
    /\ cb.ops[2].dynamic_state = dynamic_state
    /\ cb.ops[2].vertex_buffer = "vertex_buffer"
    /\ cb.ops[3].op = "EndRenderPass"

C8_RecordingStructure ==
    /\ error # "InvalidRecordingState"
    /\ (pc \in LoopPcs \ { "acquire", "record" }) => built = 1
    /\ built = 1 => ExpectedStructure(command_buffer)
    /\ \A i \in DOMAIN submitted : ExpectedStructure(submitted[i].command_buffer)

C8_Witness ==
    /\ pc = "then_execute"
    /\ iteration = 2
    /\ built = 1
    /\ command_buffer.ops[1].framebuffer.attachment = 1

\* C9: from the first acquire until main is left every resource created
\* before the loop stays alive (its strong count never reaches 0) and is
\* not rewritten: no loop step changes the images, the framebuffers'
\* bindings or the dynamic state; in particular this holds while a flushed
\* command buffer is unretired, and none is left unretired when main drops
\* its locals.
AllAlive ==
    /\ \A n \in ArcNames : arcs[n] >= 1
    /\ \A i \in DOMAIN framebuffers : framebuffers[i].strong >= 1

FramebufferIds(fbs) == [i \in DOMAIN fbs |-> FramebufferId(fbs[i])]

C10_FramebufferPerImage ==
    /\ error # "index out of bounds"
    /\ pc \in LoopPcs =>
          /\ Len(framebuffers) = Len(images)
          /\ Len(images) >= 1
          /\ \A i \in 0..(Len(images) - 1) :
                /\ Index0(images, i).id = i
                /\ Index0(framebuffers, i).attachment = i
          /\ image_num < Len(framebuffers)
          /\ Len(dynamic_state.viewports) = 1
          /\ dynamic_state.viewports[1].dimensions = Index0(images, 0).dimensions
          /\ built = 1 =>
                command_buffer.ops[2].dynamic_state.viewports[1].dimensions
                    = Index0(images, 0).dimensions

C10_Witness ==
    /\ pc = "then_execute"
    /\ Len(images) = 2
    /\ image_num = 1
    /\ built = 1
    /\ dynamic_state.viewports[1].dimensions = <<1280, 1024>>
====
